---- MODULE Spec2Model ----
(***************************************************************************)
(* The order-expansion engine of shopeepicklist.py as a state machine.     *)
(*                                                                         *)
(* A cell text is a sequence of segments (strings); the text it stands for *)
(* is the segments joined by single spaces, and the blank cell is <<>>.    *)
(* A size or bundle label is one segment.  The worksheet is a sequence of  *)
(* rows, each a 4-tuple of cell texts (columns A..D); a row beyond the end *)
(* of the sequence is blank.                                               *)
(***************************************************************************)
EXTENDS Integers, Sequences, FiniteSets, TLC

\* ------------------------------------------------------------------ bounds
MaxDataRows == 2
MaxRuns == 2
MaxNum == 99
MaxCellLen == 4

\* ------------------------------------------------------------- text helpers
Blank == <<>>

Min(a, b) == IF a <= b THEN a ELSE b

Indices(n) == [i \in 1..n |-> i]

RECURSIVE Flatten(_)
Flatten(ss) == IF ss = <<>> THEN <<>> ELSE Head(ss) \o Flatten(Tail(ss))

\* str(n) for the integers the model can print.
NumText == [n \in 0..MaxNum |-> ToString(n)]

IsNumeric(seg) == \E n \in DOMAIN NumText : NumText[n] = seg

\* int(s) of a numeric segment.
StrToInt(seg) == CHOOSE n \in DOMAIN NumText : NumText[n] = seg

\* `key in text`: the key is one of the segments of the text.
Contains(text, key) == \E i \in 1..Len(text) : text[i] = key

\* ---------------------------------------------------------- rule catalog
Size10x7_5pc == "(10\" x 7\") 5pc"
Size10x7_10pc == "(10\" x 7\") 10pc"
Size10x7_15pc == "(10\" x 7\") 15pc"
Size10x7_20pc == "(10\" x 7\") 20pc"
Size10x11_5pc == "(10.5\" x 11\") 5pc"
Size10x11_10pc == "(10.5\" x 11\") 10pc"
Size10x11_15pc == "(10.5\" x 11\") 15pc"
Size10x11_20pc == "(10.5\" x 11\") 20pc"
Size13x16_5pc == "(13\" x 16\") 5pc"
Size13x16_10pc == "(13\" x 16\") 10pc"
Size13x16_15pc == "(13\" x 16\") 15pc"
Size13x16_20pc == "(13\" x 16\") 20pc"
Size15x20_3pc == "(15\" X 20\") 3pc"
Size15x20_6pc == "(15\" X 20\") 6pc"
Size15x20_9pc == "(15\" X 20\") 9pc"
Size15x20_12pc == "(15\" X 20\") 12pc"

\* A value "1152 x 2" is held as its split(' x '): <<"1152", "2">>.
SIZE_TO_SKU ==
    (Size10x7_5pc :> <<"1152", "1">>) @@ (Size10x7_10pc :> <<"1152", "2">>) @@
    (Size10x7_15pc :> <<"1152", "3">>) @@ (Size10x7_20pc :> <<"1152", "4">>) @@
    (Size10x11_5pc :> <<"1153", "1">>) @@ (Size10x11_10pc :> <<"1153", "2">>) @@
    (Size10x11_15pc :> <<"1153", "3">>) @@ (Size10x11_20pc :> <<"1153", "4">>) @@
    (Size13x16_5pc :> <<"1154", "1">>) @@ (Size13x16_10pc :> <<"1154", "2">>) @@
    (Size13x16_15pc :> <<"1154", "3">>) @@ (Size13x16_20pc :> <<"1154", "4">>) @@
    (Size15x20_3pc :> <<"1318", "1">>) @@ (Size15x20_6pc :> <<"1318", "2">>) @@
    (Size15x20_9pc :> <<"1318", "3">>) @@ (Size15x20_12pc :> <<"1318", "4">>)

Sizes3_5s == "(3 SIZES, 5s)"
Sizes3_10s == "(3 SIZES, 10s)"
Sizes3_15s == "(3 SIZES, 15s)"
Sizes3_20s == "(3 SIZES, 20s)"

\* A value "1152 x 1,1153 x 1,1154 x 1" is held as its split(','), each entry
\* as its split(' x ').
SIZES_TO_SKU ==
    (Sizes3_5s :> << <<"1152", "1">>, <<"1153", "1">>, <<"1154", "1">> >>) @@
    (Sizes3_10s :> << <<"1152", "2">>, <<"1153", "2">>, <<"1154", "2">> >>) @@
    (Sizes3_15s :> << <<"1152", "3">>, <<"1153", "3">>, <<"1154", "3">> >>) @@
    (Sizes3_20s :> << <<"1152", "4">>, <<"1153", "4">>, <<"1154", "4">> >>)

\* A value "941 1, 6425 1" is held as its split(","), each entry stripped
\* and split(' ').
BUNDLE_SKUS ==
    ("Boot Polishing Pack" :> << <<"941", "1">>, <<"6425", "1">> >>) @@
    ("Pouch and Stick" :> << <<"019", "1">>, <<"169", "1">> >>) @@
    ("RCK-FULLSET" :> << <<"74", "1">>, <<"924", "1">>, <<"925", "1">>,
                         <<"926", "1">>, <<"927", "1">>, <<"940", "1">>,
                         <<"1124", "1">> >>)

\* dict.get(key, default)
Get(dict, key, default) == IF key \in DOMAIN dict THEN dict[key] ELSE default

\* Labels that match a pattern and are in no catalog.
UnknownSize == "(9\" x 9\") 7pc"
UnknownSizes == "(4 SIZES, 5s)"

\* The segments that match size_regex, r'\(\d+(?:\.\d+)?\" [xX] \d+(?:\.\d+)?\"\) \d+pc'.
size_regex == DOMAIN SIZE_TO_SKU \cup {UnknownSize}

\* The segments that match size_regex2, r'\(\d+ SIZES, \d+s\)'.
size_regex2 == DOMAIN SIZES_TO_SKU \cup {UnknownSizes}

\* re.search(regex, field).group(0), "" for no match: the leftmost segment
\* that matches.
ReSearch(regex, field) ==
    LET hits == {i \in 1..Len(field) : field[i] \in regex}
    IN IF hits = {} THEN ""
       ELSE field[CHOOSE i \in hits : \A j \in hits : i <= j]

\* for field in [order_id, sku]: if field and re.search(...): match; break
FirstMatch(regex, order_id, sku) ==
    IF ReSearch(regex, order_id) # "" THEN ReSearch(regex, order_id)
    ELSE ReSearch(regex, sku)

\* ------------------------------------------------------------- quantities
\* quantity_str.replace('Quantity: ', '').strip(): every "Quantity:" segment
\* that a space follows (it is not the last segment) goes.
StripQuantityLabel(text) ==
    LET keep == {i \in 1..Len(text) : ~(text[i] = "Quantity:" /\ i < Len(text))}
    IN SelectSeq(Indices(Len(text)), LAMBDA i : i \in keep)

\* The slip of counting an unparseable quantity as one.
parse_quantity_DefaultOne(quantity_str) ==
    LET kept == StripQuantityLabel(quantity_str)
    IN IF Len(kept) = 1 /\ IsNumeric(quantity_str[kept[1]])
       THEN StrToInt(quantity_str[kept[1]])
       ELSE 1

parse_quantity(quantity_str) ==
    LET kept == StripQuantityLabel(quantity_str)
    IN IF Len(kept) = 1 /\ IsNumeric(quantity_str[kept[1]])
       THEN StrToInt(quantity_str[kept[1]])
       ELSE 0

\* f"Quantity: {total_quantity}"
FormatQuantity(total_quantity) == <<"Quantity:", ToString(total_quantity)>>

\* ------------------------------------------------------- expansion engine
\* zip(...) stops at the shortest list.
ZipLen3(order_ids, quantities, skus) ==
    Min(Len(order_ids), Min(Len(quantities), Len(skus)))

ZipLen4(order_ids, quantities, skus, parent_skus) ==
    Min(ZipLen3(order_ids, quantities, skus), Len(parent_skus))

\* The known size label of row index, "" when the row is skipped, has no
\* label or has a label the catalog lacks.
IndividualSizeOf(order_ids, quantities, skus, index) ==
    IF order_ids[index] = Blank \/ quantities[index] = Blank THEN ""
    ELSE LET size_match == FirstMatch(size_regex, order_ids[index], skus[index])
         IN IF size_match \in DOMAIN SIZE_TO_SKU THEN size_match ELSE ""

process_individual_sizes(order_ids, quantities, skus) ==
    LET n == ZipLen3(order_ids, quantities, skus)
        Size(i) == IndividualSizeOf(order_ids, quantities, skus, i)
        hit == SelectSeq(Indices(n), LAMBDA i : Size(i) # "")
        Total(i) == StrToInt(SIZE_TO_SKU[Size(i)][2]) * parse_quantity(quantities[i])
    IN [sku_updates |->
            [k \in 1..Len(hit) |->
                [col |-> "C", row |-> hit[k], value |-> <<SIZE_TO_SKU[Size(hit[k])][1]>>]],
        quantity_updates |->
            [k \in 1..Len(hit) |->
                [col |-> "B", row |-> hit[k], value |-> FormatQuantity(Total(hit[k]))]],
        rows_to_clear |-> <<>>]

\* The bundle label of row index, "" when the row is skipped or has none.
BundleSizeOf(order_ids, quantities, skus, index) ==
    IF order_ids[index] = Blank \/ quantities[index] = Blank THEN ""
    ELSE FirstMatch(size_regex2, order_ids[index], skus[index])

\* The rows one matched row expands to; src is the index of the source row
\* (a history field: the code's rows do not carry it).
BundleSizeRows(order_ids, quantities, skus, index) ==
    LET size_matches == BundleSizeOf(order_ids, quantities, skus, index)
        skus_quantities == Get(SIZES_TO_SKU, size_matches, <<>>)
    IN [k \in 1..Len(skus_quantities) |->
            [src |-> index,
             cells |-> <<order_ids[index],
                         FormatQuantity(StrToInt(skus_quantities[k][2])
                                        * parse_quantity(quantities[index])),
                         <<skus_quantities[k][1]>>,
                         skus[index]>>]]

process_bundle_sizes(order_ids, quantities, skus) ==
    LET n == ZipLen3(order_ids, quantities, skus)
        Hit(i) == BundleSizeOf(order_ids, quantities, skus, i) # ""
    IN [additional_rows |->
            Flatten([i \in 1..n |->
                IF Hit(i) THEN BundleSizeRows(order_ids, quantities, skus, i)
                ELSE <<>>]),
        rows_to_clear |-> SelectSeq(Indices(n), Hit)]

\* The special bundle of row index, "" when the row is skipped or has none.
SpecialBundleOf(order_ids, quantities, skus, index) ==
    IF skus[index] = Blank \/ quantities[index] = Blank THEN ""
    ELSE IF skus[index] = <<"RCK-FULLSET">> THEN "RCK-FULLSET"
    ELSE IF Contains(skus[index], "Boot Polishing Pack")
            \/ Contains(order_ids[index], "Boot Polishing Pack")
         THEN "Boot Polishing Pack"
    ELSE IF Contains(skus[index], "Pouch and Stick")
            \/ Contains(order_ids[index], "Pouch and Stick")
         THEN "Pouch and Stick"
    ELSE ""

SpecialBundleRows(order_ids, quantities, skus, parent_skus, index) ==
    LET special_bundle == SpecialBundleOf(order_ids, quantities, skus, index)
        bundle_items == Get(BUNDLE_SKUS, special_bundle, <<>>)
    IN [k \in 1..Len(bundle_items) |->
            [src |-> index,
             cells |-> <<order_ids[index],
                         FormatQuantity(StrToInt(bundle_items[k][2])
                                        * parse_quantity(quantities[index])),
                         <<bundle_items[k][1]>>,
                         IF parent_skus[index] # Blank THEN parent_skus[index]
                         ELSE skus[index]>>]]

process_special_bundles(order_ids, quantities, skus, parent_skus) ==
    LET n == ZipLen4(order_ids, quantities, skus, parent_skus)
        Hit(i) == SpecialBundleOf(order_ids, quantities, skus, i) # ""
    IN [bundle_rows |->
            Flatten([i \in 1..n |->
                IF Hit(i)
                THEN SpecialBundleRows(order_ids, quantities, skus, parent_skus, i)
                ELSE <<>>]),
        rows_to_clear |-> SelectSeq(Indices(n), Hit)]

\* ------------------------------------------------------------ the worksheet
BlankRow == <<Blank, Blank, Blank, Blank>>

ColIndex(col) == CASE col = "A" -> 1 [] col = "B" -> 2 [] col = "C" -> 3 [] col = "D" -> 4

\* The rows of the worksheet up to row n, blank rows added as needed.
Extend(wks, n) ==
    IF Len(wks) >= n THEN wks ELSE wks \o [i \in 1..(n - Len(wks)) |-> BlankRow]

\* worksheet.col_values(c): the cells of column c down to its last
\* populated cell; blank cells in between are empty strings.
col_values(wks, c) ==
    LET filled == {r \in 1..Len(wks) : wks[r][c] # Blank}
        last == IF filled = {} THEN 0 ELSE CHOOSE r \in filled : \A q \in filled : q <= r
    IN [r \in 1..last |-> wks[r][c]]

RECURSIVE WriteCells(_, _)
WriteCells(wks, updates) ==
    IF updates = <<>> THEN wks
    ELSE LET u == Head(updates)
         IN WriteCells([Extend(wks, u.row) EXCEPT ![u.row][ColIndex(u.col)] = u.value],
                       Tail(updates))

apply_batch_updates(wks, sku_upd, quantity_upd) ==
    LET batch_updates == sku_upd \o quantity_upd
    IN IF batch_updates # <<>> THEN WriteCells(wks, batch_updates) ELSE wks

\* The slip of starting the append at the last populated row of column A.
NextRow_LastRow(wks) == Len(col_values(wks, 1))

\* The row the append starts at: one past the last populated cell of column A.
NextRow(wks) == Len(col_values(wks, 1)) + 1

\* The row indices an append of these rows writes.
AppendRange(wks, additional_rows) ==
    IF additional_rows = <<>> \/ NextRow(wks) <= 1 THEN {}
    ELSE NextRow(wks)..(NextRow(wks) + Len(additional_rows) - 1)

\* worksheet.update of A{next_row}:D{next_row + len(additional_rows) - 1}
UpdateRange(wks, next_row, additional_rows) ==
    [r \in 1..Len(Extend(wks, next_row + Len(additional_rows) - 1)) |->
        IF r >= next_row /\ r <= next_row + Len(additional_rows) - 1
        THEN additional_rows[r - next_row + 1].cells
        ELSE Extend(wks, r)[r]]

append_new_rows(wks, additional_rows) ==
    IF additional_rows = <<>> THEN wks
    ELSE LET next_row == NextRow(wks)
         IN IF next_row > 1
            THEN UpdateRange(wks, next_row, additional_rows)
            ELSE wks

\* The slip of deleting the rows, which moves every later row up.
clear_processed_rows_Delete(wks, rows_to_clear) ==
    LET kept == {r \in 1..Len(wks) : r \notin rows_to_clear}
    IN [k \in 1..Cardinality(kept) |->
            wks[CHOOSE r \in kept : Cardinality({q \in kept : q < r}) = k - 1]]

clear_processed_rows(wks, rows_to_clear) ==
    IF rows_to_clear = {} THEN wks
    ELSE LET last == CHOOSE r \in rows_to_clear : \A q \in rows_to_clear : q <= r
         IN [r \in 1..Len(Extend(wks, last)) |->
                IF r \in rows_to_clear THEN BlankRow ELSE Extend(wks, last)[r]]

\* ------------------------------------------------------------------ inputs
Header == << <<"order_sn">>, <<"Quantity">>, <<"SKU Reference No.">>,
             <<"Parent SKU Reference No.">> >>

Qty3 == <<"Quantity:", "3">>
QtyAbc == <<"Quantity:", "abc">>

OrderTexts ==
    {<<"ORD1">>, <<"ORD1", Size10x7_10pc>>, <<"ORD1", Sizes3_5s>>,
     <<"Boot Polishing Pack">>}

SkuTexts ==
    {Blank, <<"SKU9">>, <<"RCK-FULLSET">>, <<Sizes3_10s>>}

\* The data rows a worksheet is drawn from: every order-id text with every SKU
\* text at quantity 3 and no parent SKU; rows with no order-id; a size label
\* in the SKU; rows with a parent SKU; rows with an unparseable or blank
\* quantity; rows with a label no catalog holds; a bundle name inside a
\* longer SKU.
RowUniverse ==
    {<<o, Qty3, s, Blank>> : o \in OrderTexts, s \in SkuTexts}
    \cup {<< Blank, Qty3, Blank, Blank >>,
          << Blank, Qty3, <<"SKU9">>, Blank >>,
          << Blank, Qty3, <<"RCK-FULLSET">>, Blank >>,
          << <<"ORD1">>, Qty3, <<Size13x16_5pc>>, Blank >>,
          << <<"ORD1">>, Qty3, <<"RCK-FULLSET">>, <<"PAR1">> >>,
          << <<"ORD1">>, Qty3, <<"SKU9">>, <<"PAR1">> >>,
          << <<"ORD1">>, QtyAbc, <<"Pouch and Stick">>, <<"PAR1">> >>,
          << <<"ORD1">>, QtyAbc, <<Sizes3_10s>>, Blank >>,
          << <<"ORD1", Size10x7_10pc>>, QtyAbc, <<"SKU9">>, Blank >>,
          << <<"ORD1">>, Blank, <<"RCK-FULLSET">>, Blank >>,
          << <<"ORD1">>, Qty3, <<UnknownSizes>>, Blank >>,
          << <<"ORD1">>, Qty3, <<UnknownSize>>, Blank >>,
          << <<"ORD1">>, Qty3, <<"RCK-FULLSET", "BLK">>, Blank >>}

\* The worksheets a run can find: empty, or the header and up to MaxDataRows
\* data rows.
Worksheets ==
    {<<>>} \cup
    {<<Header>> \o rows : rows \in UNION {[1..n -> RowUniverse] : n \in 0..MaxDataRows}}

\* ----------------------------------------------------------- state machine
VARIABLES
    sheet,                   \* the worksheet
    pc,                      \* where process_picklist stands
    runs,                    \* invocations of process_picklist that returned
    result,                  \* what the last invocation returned
    order_ids, quantities, skus, parent_skus,
    sku_updates, quantity_updates,
    bundle_additional_rows, bundle_rows_to_clear,
    special_bundle_rows, special_bundle_clear,
    all_additional_rows, all_rows_to_clear,
    sheet_before,            \* history: the worksheet as this run fetched it
    appended_at,             \* history: the rows this run's append wrote
    prev_sheet,              \* history: the worksheet as the previous run left it
    prev_updated,            \* history: the rows the previous run's batch updated
    prev_expanded,           \* history: the rows the previous run appended for
                             \* the rows process_bundle_sizes matched
    connected,               \* history: how this run's connect_to_sheet ended
    failed,                  \* history: the sink writes of this run that raised
    other,                   \* a second invocation of process_picklist
    cell,                    \* a product_info cell of the Shopee export
    split_entries            \* the entries it is split into

fetched == <<order_ids, quantities, skus, parent_skus>>
plan == <<sku_updates, quantity_updates, bundle_additional_rows, bundle_rows_to_clear,
          special_bundle_rows, special_bundle_clear, all_additional_rows,
          all_rows_to_clear>>
history == <<sheet_before, appended_at, prev_sheet, prev_updated, prev_expanded>>
extra == <<connected, failed, other, cell, split_entries>>
vars == <<sheet, pc, runs, result, fetched, plan, history, extra>>

\* The second invocation before it is called.
OtherAbsent ==
    [pc |-> "absent", order_ids |-> <<>>, quantities |-> <<>>, skus |-> <<>>,
     parent_skus |-> <<>>, rows |-> <<>>, clear |-> {}, start |-> 0]

Init ==
    /\ sheet \in Worksheets
    /\ pc = "idle"
    /\ runs = 0
    /\ result = "none"
    /\ order_ids = <<>> /\ quantities = <<>> /\ skus = <<>> /\ parent_skus = <<>>
    /\ sku_updates = <<>> /\ quantity_updates = <<>>
    /\ bundle_additional_rows = <<>> /\ bundle_rows_to_clear = <<>>
    /\ special_bundle_rows = <<>> /\ special_bundle_clear = <<>>
    /\ all_additional_rows = <<>> /\ all_rows_to_clear = {}
    /\ sheet_before = sheet
    /\ appended_at = {}
    /\ prev_sheet = sheet
    /\ prev_updated = {}
    /\ prev_expanded = {}
    /\ connected = "none"
    /\ failed = {}
    /\ other = OtherAbsent
    /\ cell = <<>>
    /\ split_entries = <<>>

ClearPlan ==
    /\ sku_updates' = <<>> /\ quantity_updates' = <<>>
    /\ bundle_additional_rows' = <<>> /\ bundle_rows_to_clear' = <<>>
    /\ special_bundle_rows' = <<>> /\ special_bundle_clear' = <<>>
    /\ all_additional_rows' = <<>> /\ all_rows_to_clear' = {}

\* The invocation returns: what it leaves is what the next one's history holds.
Return(value) ==
    /\ pc' = "idle"
    /\ runs' = runs + 1
    /\ result' = value
    /\ prev_sheet' = sheet'
    /\ prev_updated' = {sku_updates'[k].row : k \in 1..Len(sku_updates')}
    /\ prev_expanded' = {r \in appended_at' : \A q \in appended_at' :
                            r < q + Len(bundle_additional_rows')}

\* The slip of reporting success from the exception handler.
ErrorResult_True == "true"

\* except Exception: return False
ErrorResult == "false"

\* connect_to_sheet raises; process_picklist logs and returns False.
ConnectFails ==
    /\ pc = "idle" /\ runs < MaxRuns
    /\ sheet' = sheet
    /\ sheet_before' = sheet
    /\ appended_at' = {}
    /\ order_ids' = <<>> /\ quantities' = <<>> /\ skus' = <<>> /\ parent_skus' = <<>>
    /\ ClearPlan
    /\ connected' = "failed"
    /\ failed' = {}
    /\ UNCHANGED <<other, cell, split_entries>>
    /\ Return(ErrorResult)

\* The slip of testing only for an empty column.
NoData_EmptyOnly(ids) == Len(ids) = 0

\* if not order_ids or len(order_ids) <= 1
NoData(ids) == Len(ids) <= 1

\* The four columns are fetched; a worksheet of at most one row ends the run.
Fetch ==
    /\ pc = "idle" /\ runs < MaxRuns
    /\ order_ids' = col_values(sheet, 1)
    /\ quantities' = col_values(sheet, 2)
    /\ skus' = col_values(sheet, 3)
    /\ parent_skus' = col_values(sheet, 4)
    /\ sheet' = sheet
    /\ sheet_before' = sheet
    /\ appended_at' = {}
    /\ ClearPlan
    /\ connected' = "ok"
    /\ failed' = {}
    /\ UNCHANGED <<other, cell, split_entries>>
    /\ IF NoData(order_ids')
       THEN Return("false")
       ELSE /\ pc' = "fetched"
            /\ UNCHANGED <<runs, result, prev_sheet, prev_updated, prev_expanded>>

ProcessIndividualSizes ==
    /\ pc = "fetched"
    /\ LET r == process_individual_sizes(order_ids, quantities, skus)
       IN /\ sku_updates' = r.sku_updates
          /\ quantity_updates' = r.quantity_updates
    /\ pc' = "sized"
    /\ UNCHANGED <<sheet, runs, result, fetched, bundle_additional_rows,
                   bundle_rows_to_clear, special_bundle_rows, special_bundle_clear,
                   all_additional_rows, all_rows_to_clear, history, extra>>

ApplyBatchUpdates ==
    /\ pc = "sized"
    /\ sheet' = apply_batch_updates(sheet, sku_updates, quantity_updates)
    /\ pc' = "batched"
    /\ UNCHANGED <<runs, result, fetched, plan, history, extra>>

ProcessBundleSizes ==
    /\ pc = "batched"
    /\ LET r == process_bundle_sizes(order_ids, quantities, skus)
       IN /\ bundle_additional_rows' = r.additional_rows
          /\ bundle_rows_to_clear' = r.rows_to_clear
    /\ pc' = "bundled"
    /\ UNCHANGED <<sheet, runs, result, fetched, sku_updates, quantity_updates,
                   special_bundle_rows, special_bundle_clear,
                   all_additional_rows, all_rows_to_clear, history, extra>>

ProcessSpecialBundles ==
    /\ pc = "bundled"
    /\ LET r == process_special_bundles(order_ids, quantities, skus, parent_skus)
       IN /\ special_bundle_rows' = r.bundle_rows
          /\ special_bundle_clear' = r.rows_to_clear
    /\ pc' = "specials"
    /\ UNCHANGED <<sheet, runs, result, fetched, sku_updates, quantity_updates,
                   bundle_additional_rows, bundle_rows_to_clear,
                   all_additional_rows, all_rows_to_clear, history, extra>>

\* list(set(...)): the indices without repeats.
Range(seq) == {seq[i] : i \in 1..Len(seq)}

CombineRows(bundle_rows, special_rows) == bundle_rows \o special_rows

\* The slip of combining without the special bundles' rows.
CombineClears_BundleOnly(bundle_clear, special_clear) == Range(bundle_clear)

CombineClears(bundle_clear, special_clear) == Range(bundle_clear \o special_clear)

Combine ==
    /\ pc = "specials"
    /\ all_additional_rows' = CombineRows(bundle_additional_rows, special_bundle_rows)
    /\ all_rows_to_clear' = CombineClears(bundle_rows_to_clear, special_bundle_clear)
    /\ pc' = "combined"
    /\ UNCHANGED <<sheet, runs, result, fetched, sku_updates, quantity_updates,
                   bundle_additional_rows, bundle_rows_to_clear,
                   special_bundle_rows, special_bundle_clear, history, extra>>

AppendNewRows ==
    /\ pc = "combined"
    /\ sheet' = append_new_rows(sheet, all_additional_rows)
    /\ appended_at' = AppendRange(sheet, all_additional_rows)
    /\ pc' = "appended"
    /\ UNCHANGED <<runs, result, fetched, plan, sheet_before, prev_sheet,
                   prev_updated, prev_expanded, extra>>

ClearProcessedRows ==
    /\ pc = "appended"
    /\ sheet' = clear_processed_rows(sheet, all_rows_to_clear)
    /\ UNCHANGED <<fetched, plan, sheet_before, appended_at, extra>>
    /\ Return("true")

Next ==
    \/ ConnectFails
    \/ Fetch
    \/ ProcessIndividualSizes
    \/ ApplyBatchUpdates
    \/ ProcessBundleSizes
    \/ ProcessSpecialBundles
    \/ Combine
    \/ AppendNewRows
    \/ ClearProcessedRows

Spec == Init /\ [][Next]_vars

\* ------------------------------------------------------- failing sink writes
\* Worksheets whose rows make each of the three writes happen: a size label
\* for the batch update, a bundle label and a bundle name for the append and
\* the clearing, and a row no pass matches.
SinkRows ==
    {<< <<"ORD1", Size10x7_10pc>>, Qty3, <<"SKU9">>, Blank >>,
     << <<"ORD1">>, Qty3, <<Sizes3_10s>>, Blank >>,
     << <<"ORD1">>, Qty3, <<"RCK-FULLSET">>, <<"PAR1">> >>,
     << <<"ORD1">>, Qty3, <<"SKU9">>, Blank >>}

SinkWorksheets ==
    {<<Header>> \o body :
        body \in UNION {[1..n -> SinkRows] : n \in 0..MaxDataRows}}

InitSink == Init /\ sheet \in SinkWorksheets

\* worksheet.batch_update raises: the exception is logged inside
\* apply_batch_updates and the run goes on with no cell written.
ApplyBatchUpdatesFails ==
    /\ pc = "sized"
    /\ sku_updates \o quantity_updates # <<>>
    /\ failed' = failed \cup {"batch"}
    /\ pc' = "batched"
    /\ UNCHANGED <<sheet, runs, result, fetched, plan, history, connected, other,
                   cell, split_entries>>

\* col_values or worksheet.update raises inside append_new_rows: logged, no row
\* written, the run goes on.
AppendNewRowsFails ==
    /\ pc = "combined"
    /\ all_additional_rows # <<>>
    /\ failed' = failed \cup {"append"}
    /\ appended_at' = {}
    /\ pc' = "appended"
    /\ UNCHANGED <<sheet, runs, result, fetched, plan, sheet_before, prev_sheet,
                   prev_updated, prev_expanded, connected, other, cell, split_entries>>

\* One of the per-row updates of clear_processed_rows raises: the rows blanked
\* before it stay blank (the list comes from a set, so any of them can be the
\* ones done), the rest are left, the exception is logged and the run returns
\* True.
ClearProcessedRowsFails ==
    /\ pc = "appended"
    /\ all_rows_to_clear # {}
    /\ \E done \in SUBSET all_rows_to_clear :
          /\ done # all_rows_to_clear
          /\ sheet' = clear_processed_rows(sheet, done)
    /\ failed' = failed \cup {"clear"}
    /\ UNCHANGED <<fetched, plan, sheet_before, appended_at, connected, other, cell,
                   split_entries>>
    /\ Return("true")

NextSink ==
    \/ Next
    \/ ApplyBatchUpdatesFails
    \/ AppendNewRowsFails
    \/ ClearProcessedRowsFails

SpecSink == InitSink /\ [][NextSink]_vars

\* ------------------------------------------------- a second invocation
\* A second call of process_picklist on the same worksheet, by another
\* process: nothing coordinates the two. Its passes work on its own fetched
\* lists, so each is taken together with the worksheet call that follows it;
\* append_new_rows makes two calls, the read of column A and the write.
InitRace == Init /\ sheet \in SinkWorksheets

OtherFetch ==
    /\ other.pc = "absent"
    /\ other' = [pc |-> IF NoData(col_values(sheet, 1)) THEN "returned" ELSE "fetched",
                 order_ids |-> col_values(sheet, 1),
                 quantities |-> col_values(sheet, 2),
                 skus |-> col_values(sheet, 3),
                 parent_skus |-> col_values(sheet, 4),
                 rows |-> <<>>, clear |-> {}, start |-> 0]
    /\ UNCHANGED <<sheet, pc, runs, result, fetched, plan, history, connected, failed,
                   cell, split_entries>>

OtherApplyBatchUpdates ==
    /\ other.pc = "fetched"
    /\ LET r == process_individual_sizes(other.order_ids, other.quantities, other.skus)
       IN sheet' = apply_batch_updates(sheet, r.sku_updates, r.quantity_updates)
    /\ other' = [other EXCEPT !.pc = "batched"]
    /\ UNCHANGED <<pc, runs, result, fetched, plan, history, connected, failed,
                   cell, split_entries>>

\* The passes, and the first call of append_new_rows: the length of column A.
OtherNextRow ==
    /\ other.pc = "batched"
    /\ LET b == process_bundle_sizes(other.order_ids, other.quantities, other.skus)
           sp == process_special_bundles(other.order_ids, other.quantities,
                                         other.skus, other.parent_skus)
           rows == CombineRows(b.additional_rows, sp.bundle_rows)
       IN other' = [other EXCEPT
                       !.pc = "positioned",
                       !.rows = rows,
                       !.clear = CombineClears(b.rows_to_clear, sp.rows_to_clear),
                       !.start = IF rows = <<>> THEN 0 ELSE NextRow(sheet)]
    /\ UNCHANGED <<sheet, pc, runs, result, fetched, plan, history, connected, failed,
                   cell, split_entries>>

\* The second call of append_new_rows: the rows are written from the row
\* computed before, whatever was written there since.
OtherAppendNewRows ==
    /\ other.pc = "positioned"
    /\ sheet' = IF other.rows # <<>> /\ other.start > 1
                THEN UpdateRange(sheet, other.start, other.rows)
                ELSE sheet
    /\ other' = [other EXCEPT !.pc = "appended"]
    /\ UNCHANGED <<pc, runs, result, fetched, plan, history, connected, failed,
                   cell, split_entries>>

OtherClearProcessedRows ==
    /\ other.pc = "appended"
    /\ sheet' = clear_processed_rows(sheet, other.clear)
    /\ other' = [other EXCEPT !.pc = "returned"]
    /\ UNCHANGED <<pc, runs, result, fetched, plan, history, connected, failed,
                   cell, split_entries>>

NextRace ==
    \/ Next
    \/ OtherFetch
    \/ OtherApplyBatchUpdates
    \/ OtherNextRow
    \/ OtherAppendNewRows
    \/ OtherClearProcessedRows

SpecRace == InitRace /\ [][NextRace]_vars

\* ------------------------------------------------- product_info splitting
\* A product_info cell is a sequence of pieces of text: bracketed item
\* markers, item text, single spaces and line breaks.
CRLF == "\r\n"
Markers == <<"[1]", "[2]", "[3]">>
IsMarker(t) == \E i \in DOMAIN Markers : Markers[i] = t
CellTokens == {Markers[i] : i \in DOMAIN Markers} \cup {"A", "B", " ", CRLF}
Cells == UNION {[1..n -> CellTokens] : n \in 1..MaxCellLen}

\* Where (?=\[\d+\])(?<!\[1\]) matches: a marker follows and the text just
\* before is not "[1]".
SplitPoints(x) ==
    {p \in 0..(Len(x) - 1) : IsMarker(x[p + 1]) /\ (p = 0 \/ x[p] # "[1]")}

\* re.split at the empty matches: the text before the first match (empty when
\* the match is at 0), between matches, and after the last.
re_split(x) ==
    LET points == SplitPoints(x)
        n == Cardinality(points)
        Nth(k) == CHOOSE p \in points : Cardinality({q \in points : q < p}) = k - 1
        bounds == <<0>> \o [k \in 1..n |-> Nth(k)] \o <<Len(x)>>
    IN [i \in 1..(n + 1) |-> SubSeq(x, bounds[i] + 1, bounds[i + 1])]

\* [item for item in lst if item]
DropEmpty(lst) == SelectSeq(lst, LAMBDA item : item # <<>>)

\* df.explode: one row per entry; an empty list leaves one row holding NaN.
NaN == <<"NaN">>
Explode(lst) == IF lst = <<>> THEN <<NaN>> ELSE lst

IsSpace(t) == t \in {" ", CRLF}

RECURSIVE LStrip(_)
LStrip(e) == IF e # <<>> /\ IsSpace(Head(e)) THEN LStrip(Tail(e)) ELSE e

RECURSIVE RStrip(_)
RStrip(e) ==
    IF e # <<>> /\ IsSpace(e[Len(e)]) THEN RStrip(SubSeq(e, 1, Len(e) - 1)) ELSE e

\* str.strip()
Strip(e) == RStrip(LStrip(e))

\* str.replace(r'\r\n', ' ')
ReplaceCRLF(e) == [i \in 1..Len(e) |-> IF e[i] = CRLF THEN " " ELSE e[i]]

\* str.replace(' +', ' ')
CollapseSpaces(e) ==
    LET keep == {i \in 1..Len(e) : ~(e[i] = " " /\ i > 1 /\ e[i - 1] = " ")}
    IN [k \in 1..Cardinality(keep) |->
            e[CHOOSE i \in keep : Cardinality({j \in keep : j < i}) = k - 1]]

CleanEntry(e) == IF e = NaN THEN NaN ELSE Strip(CollapseSpaces(ReplaceCRLF(Strip(e))))

SplitCell(x) ==
    LET lst == Explode(DropEmpty(re_split(x)))
    IN [i \in 1..Len(lst) |-> CleanEntry(lst[i])]

InitSplit ==
    /\ sheet = <<>>
    /\ pc = "cell"
    /\ runs = 0
    /\ result = "none"
    /\ order_ids = <<>> /\ quantities = <<>> /\ skus = <<>> /\ parent_skus = <<>>
    /\ sku_updates = <<>> /\ quantity_updates = <<>>
    /\ bundle_additional_rows = <<>> /\ bundle_rows_to_clear = <<>>
    /\ special_bundle_rows = <<>> /\ special_bundle_clear = <<>>
    /\ all_additional_rows = <<>> /\ all_rows_to_clear = {}
    /\ sheet_before = <<>>
    /\ appended_at = {}
    /\ prev_sheet = <<>>
    /\ prev_updated = {}
    /\ prev_expanded = {}
    /\ connected = "none"
    /\ failed = {}
    /\ other = OtherAbsent
    /\ cell \in Cells
    /\ split_entries = <<>>

SplitEntries ==
    /\ pc = "cell"
    /\ split_entries' = SplitCell(cell)
    /\ pc' = "split"
    /\ UNCHANGED <<sheet, runs, result, fetched, plan, history, connected, failed,
                   other, cell>>

NextSplit == SplitEntries

SpecSplit == InitSplit /\ [][NextSplit]_vars

\* ------------------------------------------------------------------ claims
\* Row r of a worksheet; blank beyond its end.
Row(wks, r) == IF r \in 1..Len(wks) THEN wks[r] ELSE BlankRow

\* The source rows that contributed a row to a list of planned rows.
Sources(rows) == {rows[k].src : k \in 1..Len(rows)}

\* The planned rows of one source row, in plan order.
RowsOf(rows, r) == SelectSeq(rows, LAMBDA x : x.src = r)

\* The row indices the planned cell updates write.
UpdatedRows == {sku_updates[k].row : k \in 1..Len(sku_updates)}
               \cup {quantity_updates[k].row : k \in 1..Len(quantity_updates)}

NamedKeys == {"Boot Polishing Pack", "Pouch and Stick", "RCK-FULLSET"}

\* The text of the row names a special bundle, in its SKU or its order-id.
HasNamedKey(row) == \E key \in NamedKeys : Contains(row[3], key) \/ Contains(row[1], key)

\* The text of the row has a bundle label, in its order-id or its SKU.
HasBundleLabel(row) == FirstMatch(size_regex2, row[1], row[3]) # ""

\* C1: every source row that contributes an appended row, through
\* process_bundle_sizes or process_special_bundles, is among the rows handed
\* to clear_processed_rows.
C1_ExpandedRowsAreCleared ==
    pc = "appended" =>
        Sources(bundle_additional_rows) \cup Sources(special_bundle_rows)
            \subseteq all_rows_to_clear

C1_Witness ==
    /\ pc = "appended"
    /\ bundle_additional_rows # <<>>
    /\ special_bundle_rows # <<>>
    /\ Sources(bundle_additional_rows) # Sources(special_bundle_rows)

\* C2: no row index is both in the cell updates of process_individual_sizes
\* and in the rows to clear of process_bundle_sizes / process_special_bundles.
C2_SingleSizeExcludesReplacement ==
    UpdatedRows \cap (Range(bundle_rows_to_clear) \cup Range(special_bundle_clear)) = {}

\* C3: no source row contributes appended rows from both process_bundle_sizes
\* and process_special_bundles in the same run.
C3_OneReplacementCategory ==
    Sources(bundle_additional_rows) \cap Sources(special_bundle_rows) = {}

\* The known size label of a row's text, "" when it has none.
KnownSizeLabel(row) ==
    LET m == FirstMatch(size_regex, row[1], row[3])
    IN IF m \in DOMAIN SIZE_TO_SKU THEN m ELSE ""

\* C4: every row with a known SingleSize label (and an order-id and a
\* quantity) that matches no bundle rule gets exactly two cell writes at its
\* own index, SKU := the catalog SKU and quantity := "Quantity: " multiplier x
\* parsed quantity, and neither appended rows nor a clear.
C4_SingleSizeRowUpdated ==
    pc = "appended" =>
        \A r \in 1..Len(sheet_before) :
            LET row == sheet_before[r]
                label == KnownSizeLabel(row)
            IN (/\ label # "" /\ row[1] # Blank /\ row[2] # Blank
                /\ ~HasBundleLabel(row) /\ ~HasNamedKey(row))
               => /\ SelectSeq(sku_updates, LAMBDA u : u.row = r)
                        = << [col |-> "C", row |-> r,
                              value |-> <<SIZE_TO_SKU[label][1]>>] >>
                  /\ SelectSeq(quantity_updates, LAMBDA u : u.row = r)
                        = << [col |-> "B", row |-> r,
                              value |-> <<"Quantity:",
                                          ToString(StrToInt(SIZE_TO_SKU[label][2])
                                                   * parse_quantity(row[2]))>>] >>
                  /\ r \notin Sources(all_additional_rows)
                  /\ r \notin all_rows_to_clear

\* C5: a row matching a known MultiSizeBundle key (with an order-id and a
\* quantity q) produces one appended row per entry of the key's catalog
\* value, in catalog order, the i-th with the i-th SKU and quantity
\* (i-th multiplier x q).
C5_BundleRowExpanded ==
    pc = "appended" =>
        \A r \in 1..Len(sheet_before) :
            LET row == sheet_before[r]
                key == FirstMatch(size_regex2, row[1], row[3])
            IN (key \in DOMAIN SIZES_TO_SKU /\ row[1] # Blank /\ row[2] # Blank)
               => LET got == RowsOf(bundle_additional_rows, r)
                      entries == SIZES_TO_SKU[key]
                  IN /\ Len(got) = Len(entries)
                     /\ \A i \in 1..Len(entries) :
                            /\ got[i].cells[3] = <<entries[i][1]>>
                            /\ got[i].cells[2]
                                 = <<"Quantity:", ToString(StrToInt(entries[i][2])
                                                           * parse_quantity(row[2]))>>

\* C6: a row whose SKU is "RCK-FULLSET", with order quantity q, gets exactly
\* 7 appended rows, SKUs 74, 924, 925, 926, 927, 940, 1124 in this order,
\* each at quantity q, each [orderId, quantity, sku, parentSku] (the bundle's
\* own SKU standing in for a blank parent SKU).
C6_FullSetExpanded ==
    pc = "appended" =>
        \A r \in 1..Len(sheet_before) :
            LET row == sheet_before[r]
            IN (row[3] = <<"RCK-FULLSET">> /\ row[2] # Blank)
               => LET got == RowsOf(special_bundle_rows, r)
                      want == <<"74", "924", "925", "926", "927", "940", "1124">>
                  IN /\ Len(got) = 7
                     /\ \A i \in 1..7 :
                            got[i].cells
                              = <<row[1],
                                  <<"Quantity:", ToString(parse_quantity(row[2]))>>,
                                  <<want[i]>>,
                                  IF row[4] # Blank THEN row[4] ELSE row[3]>>

\* C7: every row whose SKU or order-id text contains a NamedBundle key, and
\* whose quantity cell is not empty, is fully replaced: expansion rows are
\* appended for it and it is cleared.  Stated for the rows that all four
\* fetched columns reach.
C7_NamedBundleRowReplaced ==
    pc = "appended" =>
        \A r \in 1..ZipLen4(order_ids, quantities, skus, parent_skus) :
            (HasNamedKey(sheet_before[r]) /\ sheet_before[r][2] # Blank)
            => /\ r \in Sources(special_bundle_rows)
               /\ r \in all_rows_to_clear

\* C8: every row down to the last populated one is classified: a row whose
\* order-id holds a known SingleSize label (and whose quantity is not empty)
\* is updated, one whose order-id holds a known bundle label is expanded,
\* however far down the SKU and parent-SKU columns are populated.
C8_EveryRowClassified ==
    pc = "appended" =>
        \A r \in 1..Len(sheet_before) :
            LET row == sheet_before[r]
            IN /\ (ReSearch(size_regex, row[1]) \in DOMAIN SIZE_TO_SKU /\ row[2] # Blank)
                    => r \in UpdatedRows
               /\ (ReSearch(size_regex2, row[1]) \in DOMAIN SIZES_TO_SKU /\ row[2] # Blank)
                    => r \in Sources(bundle_additional_rows)

\* No rule's pattern or name occurs in the row's order-id or SKU text.
MatchesNoRule(row) ==
    /\ FirstMatch(size_regex, row[1], row[3]) = ""
    /\ ~HasBundleLabel(row)
    /\ ~HasNamedKey(row)

\* C9: a row that matches no rule is the same, in all four columns and at
\* the same index, after a run as before it.
C9_UnmatchedRowUntouched ==
    (pc = "idle" /\ runs > 0 /\ result = "true") =>
        \A r \in 1..Len(sheet_before) :
            MatchesNoRule(sheet_before[r]) => Row(sheet, r) = sheet_before[r]

\* C10: after a run that expanded a MultiSizeBundle row, the next run plans
\* no update, no append and no clear for the rows that run appended, and
\* leaves them as they were.
C10_ExpandedRowsInert ==
    (pc = "appended" /\ runs > 0) =>
        \A r \in prev_expanded :
            /\ r \notin UpdatedRows
            /\ r \notin Sources(all_additional_rows)
            /\ r \notin all_rows_to_clear
            /\ Row(sheet, r) = Row(prev_sheet, r)


\* C11: when a sink write of a run fails (the batch update, the append or the
\* clearing), process_picklist returns false: the failure is never swallowed
\* into a true result.
C11_SinkFailureReturnsFalse ==
    (pc = "idle" /\ runs > 0 /\ failed # {}) => result = "false"

\* The row's resolved label matches a rule's pattern but the rule's catalog
\* does not hold it, and the row matches nothing else.
LabelNotInCatalog(row) ==
    LET single == FirstMatch(size_regex, row[1], row[3])
        bundle == FirstMatch(size_regex2, row[1], row[3])
    IN /\ row[1] # Blank /\ row[2] # Blank
       /\ ~HasNamedKey(row)
       /\ \/ single # "" /\ single \notin DOMAIN SIZE_TO_SKU /\ bundle = ""
          \/ bundle # "" /\ bundle \notin DOMAIN SIZES_TO_SKU /\ single = ""

\* The quantity cell is populated and is not an integer, with or without the
\* "Quantity: " prefix.
IntegerCells ==
    {<<ToString(n)>> : n \in 0..MaxNum} \cup {<<"Quantity:", ToString(n)>> : n \in 0..MaxNum}

NotAnInteger(text) == text # Blank /\ text \notin IntegerCells

\* C12: a malformed row, one whose quantity cannot be parsed or whose label
\* matches a rule's pattern but has no entry in that rule's catalog, gets no
\* cell update, contributes no appended row and is not cleared.
C12_MalformedRowPassesThrough ==
    pc = "appended" =>
        \A r \in 1..Len(sheet_before) :
            (\/ LabelNotInCatalog(sheet_before[r])
             \/ NotAnInteger(sheet_before[r][2]) /\ ~MatchesNoRule(sheet_before[r]))
            => /\ r \notin UpdatedRows
               /\ r \notin Sources(all_additional_rows)
               /\ r \notin all_rows_to_clear

ZeroQuantity == <<"Quantity:", "0">>

\* C13: for a row whose quantity cell is populated but not an integer, every
\* quantity written at the row and every row appended for it carries
\* "Quantity: 0", and the run that planned them returns true.
C13_UnparseableQuantityIsZero ==
    /\ \A r \in 1..Len(sheet_before) :
          NotAnInteger(sheet_before[r][2]) =>
              /\ \A k \in 1..Len(quantity_updates) :
                    quantity_updates[k].row = r
                        => quantity_updates[k].value = ZeroQuantity
              /\ \A k \in 1..Len(all_additional_rows) :
                    all_additional_rows[k].src = r
                        => all_additional_rows[k].cells[2] = ZeroQuantity
    /\ (pc = "idle" /\ runs > 0
        /\ \E r \in UpdatedRows \cup Sources(all_additional_rows) :
              NotAnInteger(sheet_before[r][2]))
       => result = "true"

C13_Witness ==
    /\ pc = "idle" /\ result = "true"
    /\ \E r \in UpdatedRows : NotAnInteger(sheet_before[r][2])
    /\ \E r \in Sources(bundle_additional_rows) : NotAnInteger(sheet_before[r][2])
    /\ \E r \in 1..Len(sheet) : sheet[r][2] = ZeroQuantity

\* C14: the appended rows go to consecutive rows, in plan order, and every
\* row they are written to was blank in all four columns before the run.
C14_AppendAfterLastPopulatedRow ==
    pc = "appended" =>
        /\ \A r \in appended_at : Row(sheet_before, r) = BlankRow
        /\ \A r \in appended_at :
              \E k \in 1..Len(all_additional_rows) :
                  /\ Row(sheet, r) = all_additional_rows[k].cells
                  /\ \A q \in appended_at : q >= r - k + 1

\* The index of the last row with a populated cell, 0 for an empty table.
LastPopulatedRow(wks) ==
    IF \A r \in 1..Len(wks) : wks[r] = BlankRow THEN 0
    ELSE CHOOSE r \in 1..Len(wks) :
            wks[r] # BlankRow /\ \A q \in (r + 1)..Len(wks) : wks[q] = BlankRow

\* C15: for a table with no row or only the header row, process_picklist
\* goes no further than the fetch, plans and writes nothing, and returns
\* false.
C15_NoDataReturnsFalse ==
    LastPopulatedRow(sheet_before) <= 1 =>
        /\ pc = "idle"
        /\ sheet = sheet_before
        /\ UpdatedRows = {} /\ all_additional_rows = <<>> /\ all_rows_to_clear = {}
        /\ runs > 0 => result = "false"

C15_Witness ==
    /\ pc = "idle" /\ runs > 0 /\ connected = "ok"
    /\ sheet_before = <<Header>>
    /\ result = "false"

\* C16: when connect_to_sheet fails the run ends there: nothing was fetched,
\* nothing planned, the worksheet is as it was, and the result is false.
C16_ConnectFailureAborts ==
    connected = "failed" =>
        /\ pc = "idle"
        /\ result = "false"
        /\ sheet = sheet_before
        /\ order_ids = <<>> /\ quantities = <<>> /\ skus = <<>> /\ parent_skus = <<>>
        /\ UpdatedRows = {} /\ all_additional_rows = <<>> /\ all_rows_to_clear = {}
        /\ appended_at = {}

C16_Witness ==
    /\ connected = "failed" /\ runs > 0
    /\ \E r \in 2..Len(sheet) : ~MatchesNoRule(sheet[r])

\* The item markers of a cell, in the order they occur.
MarkersOf(x) == SelectSeq(x, IsMarker)

\* C17: a cell that starts with [1] and whose markers are [1], ..., [k] in
\* order is split into exactly k non-empty entries, the i-th starting with
\* marker [i]; a cell with no marker is split into exactly one entry, the
\* trimmed cell.
C17_OneEntryPerItem ==
    pc = "split" =>
        /\ \A k \in DOMAIN Markers :
              (MarkersOf(cell) = SubSeq(Markers, 1, k) /\ cell[1] = Markers[1])
              => /\ Len(split_entries) = k
                 /\ \A i \in 1..k : /\ split_entries[i] # <<>>
                                    /\ split_entries[i][1] = Markers[i]
        /\ MarkersOf(cell) = <<>> => split_entries = <<Strip(cell)>>

\* C18: the clearing step of a run blanks the four cells of exactly the rows
\* in the set of both passes' rows to clear and leaves every other row, at
\* its index, as it was; every cleared index is below the rows the run
\* appended.
C18_ClearBlanksExactlyInPlace ==
    [][(pc = "appended" /\ pc' = "idle") =>
          /\ all_rows_to_clear
                = Range(bundle_rows_to_clear) \cup Range(special_bundle_clear)
          /\ \A r \in 1..(Len(sheet) + Len(sheet')) :
                IF r \in all_rows_to_clear
                THEN Row(sheet', r) = BlankRow
                ELSE Row(sheet', r) = Row(sheet, r)
          /\ \A c \in all_rows_to_clear : \A a \in appended_at : c < a]_vars

C18_Witness ==
    /\ pc = "idle" /\ result = "true"
    /\ Range(bundle_rows_to_clear) \cap Range(special_bundle_clear) # {}
    /\ Cardinality(all_rows_to_clear) = 2
    /\ appended_at # {}
    /\ \A r \in all_rows_to_clear : Row(sheet, r) = BlankRow
    /\ \A r \in appended_at : Row(sheet, r) # BlankRow

\* The first row of a set of appended rows.
FirstOf(rows) == CHOOSE r \in rows : \A q \in rows : r <= q

\* C19: while process_picklist is the only invocation, a run that returned
\* true leaves every row it appended in place, in plan order, with nothing
\* written after them: no appended row is overwritten and no row is
\* expanded a second time. (That two interleaved invocations do race is the
\* state C19_Witness.)
C19_SingleInvocationNoRace ==
    (other.pc = "absent" /\ pc = "idle" /\ result = "true" /\ appended_at # {}) =>
        /\ Cardinality(appended_at) = Len(all_additional_rows)
        /\ \A k \in 1..Len(all_additional_rows) :
              Row(sheet, FirstOf(appended_at) + k - 1) = all_additional_rows[k].cells
        /\ \A r \in 1..Len(sheet) :
              r >= FirstOf(appended_at) + Len(all_additional_rows)
                  => Row(sheet, r) = Row(sheet_before, r)

\* Both invocations fetched the same columns, both appended from the same
\* start row, the one over the other, and both expanded the same row.
C19_Witness ==
    /\ other.pc \in {"appended", "returned"}
    /\ pc \in {"appended", "idle"}
    /\ other.order_ids = order_ids /\ other.quantities = quantities
    /\ other.skus = skus /\ other.parent_skus = parent_skus
    /\ appended_at # {}
    /\ other.start = FirstOf(appended_at)
    /\ Sources(other.rows) \cap Sources(bundle_additional_rows) # {}

\* C20: after a run, a row the run expanded is blank only if the append of
\* that run did not fail and every row planned for it is in the worksheet
\* among the rows the run appended.
C20_ClearedOnlyAfterAppend ==
    (pc = "idle" /\ runs > 0) =>
        \A r \in Sources(all_additional_rows) :
            Row(sheet, r) = BlankRow =>
                /\ "append" \notin failed
                /\ \A k \in 1..Len(all_additional_rows) :
                      all_additional_rows[k].src = r =>
                          \E a \in appended_at :
                              Row(sheet, a) = all_additional_rows[k].cells

\* C21: once the batch update of a run is applied, the SKU and quantity
\* cells of every row the previous run updated as a SingleSize row are what
\* that run left: the quantity is not multiplied a second time, wherever
\* the size label sits.
C21_SingleSizeUpdateIdempotent ==
    (pc = "batched" /\ runs > 0) =>
        \A r \in prev_updated :
            /\ Row(sheet, r)[2] = Row(prev_sheet, r)[2]
            /\ Row(sheet, r)[3] = Row(prev_sheet, r)[3]

====
